---- MODULE Spec2Model ----
(***************************************************************************)
(* A model of rule_merge.py: the line normaliser process_rule, the sort    *)
(* sort_rules, the priority merge merge_rules_with_priority, and the       *)
(* driver main with its parallel downloads, its per-category loop and the  *)
(* unified Proxy+Ai output.                                                *)
(*                                                                         *)
(* A Python str is a sequence of one-character strings, so that strip,     *)
(* split, startswith, the substring tests and the code-point order of      *)
(* sorted() are computed, character by character, as Python computes them. *)
(***************************************************************************)
EXTENDS Integers, Sequences, FiniteSets, TLC

VARIABLES
    rule,                  \* process_rule: the raw line handed in
    processed_rule,        \* process_rule: what it returned (Unset before)
    custom_rules,          \* merge_rules_with_priority: first argument
    third_party_rules,     \* merge_rules_with_priority: second argument
    merged_rules,          \* merge_rules_with_priority(custom, third party)
    remerged_rules,        \* merge_rules_with_priority([], merged payload)
    custom_files,          \* main: custom_proxy.txt / custom_direct.txt
    responses,             \* main: what each download returns (text or None)
    pending,               \* download_all_rules: futures not yet completed
    all_rules,             \* download_all_rules: the dict, in insertion order
    todo,                  \* main: categories the loop has still to visit
    files,                 \* the output files written so far
    pc                     \* main: where the run is

vars == <<rule, processed_rule, custom_rules, third_party_rules, merged_rules,
          remerged_rules, custom_files, responses, pending, all_rules, todo,
          files, pc>>

----------------------------------------------------------------------------
(* Bounds of the model.                                                    *)

\* longest body of a raw line handed to process_rule on its own
MaxLen == 3
\* longest list of custom lines handed to merge_rules_with_priority
MaxCustom == 2
\* longest list of third-party lines handed to merge_rules_with_priority
MaxThird == 2

----------------------------------------------------------------------------
(* Python values.                                                          *)

\* Python's None; no str equals it (a str is a tuple of 1-character strings)
None == <<"None">>
\* a variable not yet assigned
Unset == <<"unset">>
\* the result of merge_rules_with_priority before the call
NotMerged == [payload |-> Unset, custom_count |-> 0]

\* the code points of the characters the model's texts are made of
Seg32 == <<" ", "!">>
Seg35 == <<"#", "$", "%", "&", "'", "(", ")", "*", "+", ",", "-", ".", "/",
           "0", "1", "2", "3", "4", "5", "6", "7", "8", "9", ":", ";", "<",
           "=", ">">>
Seg65 == <<"A", "B", "C", "D", "E", "F", "G", "H", "I", "J", "K", "L", "M",
           "N", "O", "P", "Q", "R", "S", "T", "U", "V", "W", "X", "Y", "Z">>
Seg97 == <<"a", "b", "c", "d", "e", "f", "g", "h", "i", "j", "k", "l", "m",
           "n", "o", "p", "q", "r", "s", "t", "u", "v", "w", "x", "y", "z">>

CodePoints ==
    {<<"\t", 9>>, <<"\n", 10>>}
      \cup {<<Seg32[i], 31 + i>> : i \in DOMAIN Seg32}
      \cup {<<Seg35[i], 34 + i>> : i \in DOMAIN Seg35}
      \cup {<<Seg65[i], 64 + i>> : i \in DOMAIN Seg65}
      \cup {<<Seg97[i], 96 + i>> : i \in DOMAIN Seg97}

Chars == {p[1] : p \in CodePoints}

\* ord(c)
OrdMap == [c \in Chars |-> (CHOOSE p \in CodePoints : p[1] = c)[2]]
Ord(c) == OrdMap[c]

\* chr(n)
Chr(n) == (CHOOSE p \in CodePoints : p[2] = n)[1]

\* str.lower() on one character, then on a str
LowerMap ==
    [c \in Chars |-> IF Ord(c) >= 65 /\ Ord(c) <= 90 THEN Chr(Ord(c) + 32) ELSE c]
LowerChar(c) == LowerMap[c]
Lower(s) == [i \in DOMAIN s |-> LowerChar(s[i])]

\* the characters str.strip() with no argument removes (of those modelled)
Whitespace == {" ", "\t", "\n"}

\* the first index at or after i of a character of s that is not in cs
\* (Len(s) + 1 when there is none)
RECURSIVE FirstKept(_, _, _)
FirstKept(s, cs, i) ==
    IF i <= Len(s) /\ s[i] \in cs THEN FirstKept(s, cs, i + 1) ELSE i

\* the last index at or before j of a character of s that is not in cs
\* (0 when there is none)
RECURSIVE LastKept(_, _, _)
LastKept(s, cs, j) ==
    IF j >= 1 /\ s[j] \in cs THEN LastKept(s, cs, j - 1) ELSE j

\* s.lstrip(cs), s.rstrip(cs)
LStrip(s, cs) == SubSeq(s, FirstKept(s, cs, 1), Len(s))
RStrip(s, cs) == SubSeq(s, 1, LastKept(s, cs, Len(s)))

\* s.strip(cs): the characters of cs removed from both ends
StripChars(s, cs) == RStrip(LStrip(s, cs), cs)

\* s.strip()
Strip(s) == StripChars(s, Whitespace)

\* s.startswith(p)
StartsWith(s, p) == Len(s) >= Len(p) /\ SubSeq(s, 1, Len(p)) = p

\* sub in s
Contains(s, sub) ==
    \E i \in 1..(Len(s) - Len(sub) + 1) : SubSeq(s, i, i + Len(sub) - 1) = sub

\* the index of the first c in s at or after i, 0 when there is none
RECURSIVE IndexOf(_, _, _)
IndexOf(s, c, i) ==
    IF i > Len(s) THEN 0
    ELSE IF s[i] = c THEN i
    ELSE IndexOf(s, c, i + 1)

\* s.split(sep)[0] for a one-character sep: s up to the first sep
SplitFirst(s, sep) ==
    IF IndexOf(s, sep, 1) = 0 THEN s ELSE SubSeq(s, 1, IndexOf(s, sep, 1) - 1)

\* a < b for two str that agree before index i
RECURSIVE LessFrom(_, _, _)
LessFrom(a, b, i) ==
    IF i > Len(b) THEN FALSE
    ELSE IF i > Len(a) THEN TRUE
    ELSE IF a[i] # b[i] THEN Ord(a[i]) < Ord(b[i])
    ELSE LessFrom(a, b, i + 1)

\* a < b for two str: by code point, a proper prefix first
StrLess(a, b) == LessFrom(a, b, 1)

\* "".join(parts)
RECURSIVE Join(_)
Join(parts) == IF parts = <<>> THEN <<>> ELSE Head(parts) \o Join(Tail(parts))

\* the elements of a list, as a set
Elems(seq) == {seq[i] : i \in DOMAIN seq}

\* the sequences over S of length at most n
SeqsUpTo(S, n) == UNION {[1..k -> S] : k \in 0..n}

----------------------------------------------------------------------------
(* process_rule                                                            *)

PFX_DOMAIN == <<"D", "O", "M", "A", "I", "N", ",">>
PFX_DOMAIN_SUFFIX ==
    <<"D", "O", "M", "A", "I", "N", "-", "S", "U", "F", "F", "I", "X", ",">>
PFX_DOMAIN_KEYWORD ==
    <<"D", "O", "M", "A", "I", "N", "-", "K", "E", "Y", "W", "O", "R", "D", ",">>
PFX_DOMAIN_REGEX ==
    <<"D", "O", "M", "A", "I", "N", "-", "R", "E", "G", "E", "X", ",">>
PFX_IP_CIDR == <<"I", "P", "-", "C", "I", "D", "R", ",">>
PFX_IP_CIDR6 == <<"I", "P", "-", "C", "I", "D", "R", "6", ",">>
PFX_IP_ASN == <<"I", "P", "-", "A", "S", "N", ",">>
PFX_PROCESS_NAME ==
    <<"P", "R", "O", "C", "E", "S", "S", "-", "N", "A", "M", "E", ",">>
PFX_USER_AGENT == <<"U", "S", "E", "R", "-", "A", "G", "E", "N", "T", ",">>

prefixes ==
    {PFX_DOMAIN, PFX_DOMAIN_SUFFIX, PFX_DOMAIN_KEYWORD, PFX_DOMAIN_REGEX,
     PFX_IP_CIDR, PFX_IP_CIDR6, PFX_IP_ASN, PFX_PROCESS_NAME, PFX_USER_AGENT}

PAYLOAD_HEADER == <<"p", "a", "y", "l", "o", "a", "d", ":">>
HTML_CLASS == <<"c", "l", "a", "s", "s", "=">>
HTML_DATA == <<"d", "a", "t", "a", "-">>

\* the characters of rule.strip("'-+ .")
Decoration == {"'", "-", "+", " ", "."}

\* rule.split('#')[0].strip()
Uncommented(r) == Strip(SplitFirst(r, "#"))

\* rule.strip("'-+ .")
Undecorated(r) == StripChars(r, Decoration)

\* the HTML test of process_rule
LooksLikeHtml(r) ==
    \/ "<" \in Elems(r)
    \/ ">" \in Elems(r)
    \/ Contains(r, HTML_CLASS)
    \/ Contains(r, HTML_DATA)

\* the prefix step of process_rule
WithPrefix(r) ==
    IF \E p \in prefixes : StartsWith(r, p) THEN r ELSE PFX_DOMAIN_SUFFIX \o r

process_rule(r) ==
    LET r1 == Uncommented(r)
        r2 == Undecorated(r1)
    IN  IF r1 = <<>> \/ Lower(r1) = PAYLOAD_HEADER THEN None
        ELSE IF LooksLikeHtml(r2) THEN None
        ELSE WithPrefix(r2)

\* Python's truth of a value process_rule returned ("if processed_rule")
Truthy(v) == v # None /\ v # <<>>

----------------------------------------------------------------------------
(* sort_rules and merge_rules_with_priority                                *)

\* the sort key (x.split(',')[0], x) of a precedes that of b
KeyLess(a, b) ==
    LET ka == SplitFirst(a, ",")
        kb == SplitFirst(b, ",")
    IN  StrLess(ka, kb) \/ (ka = kb /\ StrLess(a, b))

\* x put into a sorted list, behind the entries whose key is not greater
\* (sorted() is stable)
RECURSIVE Insert(_, _)
Insert(x, s) ==
    IF s = <<>> THEN <<x>>
    ELSE IF KeyLess(x, Head(s)) THEN <<x>> \o s
    ELSE <<Head(s)>> \o Insert(x, Tail(s))

RECURSIVE Sorted(_)
Sorted(rules) ==
    IF rules = <<>> THEN <<>>
    ELSE Insert(rules[Len(rules)], Sorted(SubSeq(rules, 1, Len(rules) - 1)))

\* a sort_rules that leaves the rules in the order it is given them
sort_rules_unsorted(rules) == rules

sort_rules(rules) == Sorted(rules)

\* iterating set(rules): each element once, in an order Python does not fix
RECURSIVE Enumerate(_)
Enumerate(S) ==
    IF S = {} THEN <<>>
    ELSE LET x == CHOOSE x \in S : TRUE IN <<x>> \o Enumerate(S \ {x})

\* a set() that keeps every occurrence
py_set_keeps_duplicates(rules) == rules

py_set(rules) == Enumerate(Elems(rules))

\* [rule for rule in (process_rule(r) for r in lines) if rule]
RECURSIVE ProcessAll(_)
ProcessAll(lines) ==
    IF lines = <<>> THEN <<>>
    ELSE LET p == process_rule(Head(lines))
         IN  (IF Truthy(p) THEN <<p>> ELSE <<>>) \o ProcessAll(Tail(lines))

\* the second loop of merge_rules_with_priority: a third-party rule is
\* appended unless process_rule rejects it or merged holds it already
RECURSIVE AddThirdParty(_, _)
AddThirdParty(merged, third) ==
    IF third = <<>> THEN merged
    ELSE LET p == process_rule(Head(third))
         IN  AddThirdParty(
                 IF Truthy(p) /\ p \notin Elems(merged)
                 THEN Append(merged, p) ELSE merged,
                 Tail(third))

merge_rules_with_priority(custom, third) ==
    LET customs == ProcessAll(custom)
        merged  == AddThirdParty(customs, third)
    IN  [payload |-> sort_rules(merged), custom_count |-> Len(customs)]

----------------------------------------------------------------------------
(* get_file_format, parse_rules, read_custom_domains                       *)

NL == <<"\n">>

\* the index of the first occurrence of sub in s at or after i, 0 when
\* there is none
RECURSIVE FindFrom(_, _, _)
FindFrom(s, sub, i) ==
    IF i + Len(sub) - 1 > Len(s) THEN 0
    ELSE IF SubSeq(s, i, i + Len(sub) - 1) = sub THEN i
    ELSE FindFrom(s, sub, i + 1)

Find(s, sub) == FindFrom(s, sub, 1)

\* the index of the last occurrence of the character c in s, 0 when none
RFind(s, c) ==
    IF \E i \in DOMAIN s : s[i] = c
    THEN CHOOSE i \in DOMAIN s : s[i] = c /\ \A j \in (i + 1)..Len(s) : s[j] # c
    ELSE 0

\* s[i:], from the 1-based index i on
From(s, i) == SubSeq(s, i, Len(s))

\* text.splitlines(), and the lines a text file yields, without their "\n"
RECURSIVE SplitLines(_)
SplitLines(text) ==
    IF text = <<>> THEN <<>>
    ELSE LET line == SplitFirst(text, "\n")
         IN  <<line>> \o SplitLines(From(text, Len(line) + 2))

\* urlparse(url).path
UrlPath(url) ==
    LET rest  == From(url, Find(url, <<":", "/", "/">>) + 3)
        slash == Find(rest, <<"/">>)
        path  == IF slash = 0 THEN <<>> ELSE From(rest, slash)
    IN  SplitFirst(SplitFirst(path, "?"), "#")

\* os.path.splitext(path)[1]
SplitExt(path) ==
    LET base == From(path, RFind(path, "/") + 1)
        dot  == RFind(base, ".")
    IN  IF dot = 0 \/ \A i \in 1..(dot - 1) : base[i] = "."
        THEN <<>>
        ELSE From(base, dot)

HTTP == <<"h", "t", "t", "p", ":", "/", "/">>
HTTPS == <<"h", "t", "t", "p", "s", ":", "/", "/">>
EXT_YML == <<".", "y", "m", "l">>
EXT_YAML == <<".", "y", "a", "m", "l">>
EXT_TXT == <<".", "t", "x", "t">>
EXT_LIST == <<".", "l", "i", "s", "t">>
YAML_START == <<"-", "-", "-">>

\* the words a text in the List dialect is recognised by
SNIFF_TXT ==
    {<<"D", "O", "M", "A", "I", "N">>,
     <<"I", "P", "-", "C", "I", "D", "R">>,
     <<"U", "S", "E", "R", "-", "A", "G", "E", "N", "T">>}

\* get_file_format: "txt", "yml", or "ValueError" when it raises
get_file_format(content_or_url) ==
    IF StartsWith(content_or_url, HTTP) \/ StartsWith(content_or_url, HTTPS)
    THEN LET extension == Lower(SplitExt(UrlPath(content_or_url)))
         IN  IF extension \in {EXT_YML, EXT_YAML} THEN "yml"
             ELSE IF extension \in {EXT_TXT, EXT_LIST} THEN "txt"
             ELSE "ValueError"
    ELSE LET text == Strip(content_or_url)
         IN  IF \E w \in SNIFF_TXT : StartsWith(text, w) THEN "txt"
             ELSE IF StartsWith(text, PAYLOAD_HEADER) \/ StartsWith(text, YAML_START)
                  THEN "yml"
             ELSE "txt"

\* the lines of a text, stripped, without the empty ones and the ones that
\* start with '#' (the txt branch of parse_rules)
RECURSIVE TxtPayload(_)
TxtPayload(lines) ==
    IF lines = <<>> THEN <<>>
    ELSE LET line == Strip(Head(lines))
         IN  (IF line # <<>> /\ ~StartsWith(line, <<"#">>) THEN <<line>> ELSE <<>>)
                 \o TxtPayload(Tail(lines))

\* one entry "- scalar" of a YAML block sequence: the scalar, a
\* single-quoted one without its quotes
YamlScalar(line) ==
    LET item == Strip(From(Strip(line), 2))
    IN  IF Len(item) >= 2 /\ item[1] = "'" /\ item[Len(item)] = "'"
        THEN SubSeq(item, 2, Len(item) - 1)
        ELSE item

\* yaml.safe_load on the documents the model downloads: the key payload
\* with a block sequence of strings under it, or with nothing under it
\* (which YAML reads as null)
yaml_safe_load(content) ==
    LET lines == TxtPayload(SplitLines(content))
        items == Tail(lines)
    IN  IF items = <<>>
        THEN [payload |-> None]
        ELSE [payload |-> [i \in DOMAIN items |-> YamlScalar(items[i])]]

\* parse_rules: a dict with the key payload
parse_rules(content, file_format) ==
    IF content = None THEN [payload |-> <<>>]
    ELSE IF file_format = "yml" THEN yaml_safe_load(content)
    ELSE IF file_format \in {"txt", "list"}
         THEN [payload |-> TxtPayload(SplitLines(content))]
    ELSE [payload |-> <<>>]

\* the lines read_custom_domains keeps: not blank, not starting with '#'
\* (tested on the line as read), each stripped
RECURSIVE CustomLines(_)
CustomLines(lines) ==
    IF lines = <<>> THEN <<>>
    ELSE LET line == Head(lines)
         IN  (IF Strip(line) # <<>> /\ ~StartsWith(line, <<"#">>)
              THEN <<Strip(line)>> ELSE <<>>)
                 \o CustomLines(Tail(lines))

\* read_custom_domains: [] for a file that does not exist (None here)
read_custom_domains(file) ==
    IF file = None THEN <<>> ELSE CustomLines(SplitLines(file))

\* f"{rule}\n" for each rule, as save_rules_txt and merge_proxy_and_ai_rules
\* write them
RECURSIVE WriteLines(_)
WriteLines(rules) ==
    IF rules = <<>> THEN <<>>
    ELSE Head(rules) \o NL \o WriteLines(Tail(rules))

\* a save_rules_txt that writes the rules without the newline after each
save_rules_txt_no_newline(rules) == Join(rules)

save_rules_txt(rules) == WriteLines(rules)

----------------------------------------------------------------------------
(* The raw lines given to process_rule and to the merge.                   *)

L_SUFFIX_B == PFX_DOMAIN_SUFFIX \o <<"b", ".", "c", "o", "m">>
L_DOMAIN_C == PFX_DOMAIN \o <<"c", ".", "c", "o", "m">>
L_DOMAIN_X == PFX_DOMAIN \o <<"x", ".", "c", "o", "m">>
L_DOMAIN_Y == PFX_DOMAIN \o <<"y", ".", "c", "o", "m">>
L_BARE_B == <<"b", ".", "c", "o", "m">>
L_BARE_A == <<"a", ".", "c", "o", "m">>
L_QUOTED_TAB == <<"'", "x", "\t", "'">>
L_COMMENT == <<"#", " ", "c">>
L_CIDR == PFX_IP_CIDR \o <<"1", ".", "0", ".", "0", ".", "0", "/", "8">>
L_HTML == <<"<", "h", "t", "m", "l", ">">>

\* 'v'
Quote(v) == <<"'">> \o v \o <<"'">>

LineAlphabet == {"a", "'", "+", ".", "#", "<", "\t", " "}
Bodies == SeqsUpTo(LineAlphabet, MaxLen)

RawLines ==
    Bodies
      \cup {PFX_DOMAIN \o b : b \in Bodies}
      \cup {PFX_DOMAIN_SUFFIX \o b : b \in Bodies}
      \cup {PFX_IP_CIDR \o b : b \in Bodies}
      \cup {Quote(b) : b \in Bodies}
      \cup {PAYLOAD_HEADER, <<"P">> \o Tail(PAYLOAD_HEADER),
            HTML_CLASS \o <<"a">>, <<"a", " ">> \o HTML_DATA \o <<"a">>,
            L_SUFFIX_B, L_DOMAIN_C, L_BARE_B, L_COMMENT, L_CIDR, L_HTML}

MergePool == {L_SUFFIX_B, L_DOMAIN_C, L_BARE_B, L_QUOTED_TAB, L_COMMENT}

----------------------------------------------------------------------------
(* The variables of the parts a specification does not exercise.           *)

RuleIdle ==
    /\ rule = <<>>
    /\ processed_rule = Unset

MergeIdle ==
    /\ custom_rules = <<>>
    /\ third_party_rules = <<>>
    /\ merged_rules = NotMerged
    /\ remerged_rules = NotMerged

MainIdle ==
    /\ custom_files = <<>>
    /\ responses = <<>>
    /\ pending = {}
    /\ all_rules = <<>>
    /\ todo = <<>>
    /\ files = <<>>
    /\ pc = "idle"

ruleVars == <<rule, processed_rule>>
mergeVars == <<custom_rules, third_party_rules, merged_rules, remerged_rules>>
mainVars == <<custom_files, responses, pending, all_rules, todo, files, pc>>

----------------------------------------------------------------------------
(* process_rule applied to one raw line.                                   *)

InitRule ==
    /\ rule \in RawLines
    /\ processed_rule = Unset
    /\ MergeIdle
    /\ MainIdle

ProcessRule ==
    /\ processed_rule = Unset
    /\ processed_rule' = process_rule(rule)
    /\ UNCHANGED <<rule, mergeVars, mainVars>>

NextRule == ProcessRule

SpecRule == InitRule /\ [][NextRule]_vars

----------------------------------------------------------------------------
(* merge_rules_with_priority applied to two lists of lines, and then to    *)
(* its own payload with no custom lines.                                   *)

InitMerge ==
    /\ custom_rules \in SeqsUpTo(MergePool, MaxCustom)
    /\ third_party_rules \in SeqsUpTo(MergePool, MaxThird)
    /\ merged_rules = NotMerged
    /\ remerged_rules = NotMerged
    /\ RuleIdle
    /\ MainIdle

Merge ==
    /\ merged_rules = NotMerged
    /\ merged_rules' = merge_rules_with_priority(custom_rules, third_party_rules)
    /\ UNCHANGED <<custom_rules, third_party_rules, remerged_rules, ruleVars,
                   mainVars>>

Remerge ==
    /\ merged_rules # NotMerged
    /\ remerged_rules = NotMerged
    /\ remerged_rules' = merge_rules_with_priority(<<>>, merged_rules.payload)
    /\ UNCHANGED <<custom_rules, third_party_rules, merged_rules, ruleVars,
                   mainVars>>

NextMerge == Merge \/ Remerge

SpecMerge == InitMerge /\ [][NextMerge]_vars

----------------------------------------------------------------------------
(* main: the configuration, the downloads, the per-category loop and the   *)
(* unified output.                                                         *)

\* the URLs of rule_sets_config, with the host and the directories cut
\* short; the file name and its extension, which get_file_format reads, are
\* those of the program
URL_PROXY ==
    <<"h", "t", "t", "p", "s", ":", "/", "/", "r", "a", "w", ".", "g", "/",
      "r", "e", "l", "e", "a", "s", "e", "/", "p", "r", "o", "x", "y", ".",
      "t", "x", "t">>
URL_COPILOT ==
    <<"h", "t", "t", "p", "s", ":", "/", "/", "r", "a", "w", ".", "g", "/",
      "C", "o", "p", "i", "l", "o", "t", "/", "C", "o", "p", "i", "l", "o",
      "t", ".", "l", "i", "s", "t">>
URL_OPENAI ==
    <<"h", "t", "t", "p", "s", ":", "/", "/", "r", "a", "w", ".", "g", "/",
      "O", "p", "e", "n", "A", "I", "/", "O", "p", "e", "n", "A", "I", ".",
      "l", "i", "s", "t">>
URL_DIRECT ==
    <<"h", "t", "t", "p", "s", ":", "/", "/", "r", "a", "w", ".", "g", "/",
      "r", "e", "l", "e", "a", "s", "e", "/", "d", "i", "r", "e", "c", "t",
      ".", "t", "x", "t">>
URL_DOWNLOAD ==
    <<"h", "t", "t", "p", "s", ":", "/", "/", "r", "a", "w", ".", "g", "/",
      "D", "o", "w", "n", "l", "o", "a", "d", "/", "D", "o", "w", "n", "l",
      "o", "a", "d", ".", "l", "i", "s", "t">>

\* rule_sets_config, in the order of its items: the source of Proxy, the
\* two of Ai and the first two of the seven of Direct. Reject, which main
\* handles as it handles Ai and which the unified output does not read, is
\* left out
rule_sets_config ==
    << [output_name |-> "Proxy",  url |-> URL_PROXY,    comment |-> "Loyalsoldier Proxy"],
       [output_name |-> "Ai",     url |-> URL_COPILOT,  comment |-> "blackmatrix7 Copilot"],
       [output_name |-> "Ai",     url |-> URL_OPENAI,   comment |-> "blackmatrix7 OpenAI"],
       [output_name |-> "Direct", url |-> URL_DIRECT,   comment |-> "Loyalsoldier Direct"],
       [output_name |-> "Direct", url |-> URL_DOWNLOAD, comment |-> "blackmatrix7 Download"] >>

Futures == DOMAIN rule_sets_config

OutputNames == {"Proxy", "Ai", "Direct"}

\* f"{output_name}.txt"
TxtFile(output_name) ==
    CASE output_name = "Proxy"  -> "Proxy.txt"
      [] output_name = "Ai"     -> "Ai.txt"
      [] output_name = "Direct" -> "Direct.txt"

MERGED_CONF == "merged_rules.conf"
FileNames == {TxtFile(n) : n \in OutputNames} \cup {MERGED_CONF}

\* a text of the given lines, each ended by a newline
Text(lines) == WriteLines(lines)

Y_SUFFIX_B == <<" ", " ", "-", " ", "'", "+", ".", "b", ".", "c", "o", "m", "'">>
Y_DOMAIN_C == <<" ", " ", "-", " ", "'", "c", ".", "c", "o", "m", "'">>

DOC_PROXY_LIST == Text(<<L_DOMAIN_X>>)
DOC_PROXY_YAML == Text(<<PAYLOAD_HEADER, Y_SUFFIX_B, Y_DOMAIN_C>>)
DOC_PROXY_EMPTY == Text(<<PAYLOAD_HEADER>>)
DOC_COPILOT == Text(<<L_DOMAIN_X, L_DOMAIN_Y>>)
DOC_OPENAI == Text(<<L_COMMENT, L_SUFFIX_B, L_DOMAIN_X>>)
DOC_DIRECT == Text(<<L_SUFFIX_B, L_DOMAIN_C>>)
DOC_DOWNLOAD == Text(<<L_CIDR, L_DOMAIN_C>>)

\* what download_rules may return for each future: the text of the
\* response, or None when the request fails
Responses(f) ==
    CASE f = 1 -> {None, DOC_PROXY_LIST, DOC_PROXY_YAML, DOC_PROXY_EMPTY}
      [] f = 2 -> {None, DOC_COPILOT}
      [] f = 3 -> {None, DOC_OPENAI}
      [] f = 4 -> {None, DOC_DIRECT}
      [] f = 5 -> {None, DOC_DOWNLOAD}

CUSTOM_PROXY == "custom_proxy.txt"
CUSTOM_DIRECT == "custom_direct.txt"

\* what the two custom files may hold; None is a file that does not exist
CustomFile(name) ==
    {None} \cup
    CASE name = CUSTOM_PROXY  -> {Text(<<<<"#", "p">>, L_BARE_A, L_SUFFIX_B>>)}
      [] name = CUSTOM_DIRECT -> {Text(<<L_SUFFIX_B>>)}

custom_proxy_domains == read_custom_domains(custom_files[CUSTOM_PROXY])
custom_direct_domains == read_custom_domains(custom_files[CUSTOM_DIRECT])

\* all_rules is a dict: a sequence of [name, sets] in insertion order
Keys(d) == [i \in DOMAIN d |-> d[i].name]
HasKey(d, k) == \E i \in DOMAIN d : d[i].name = k
Get(d, k) == d[CHOOSE i \in DOMAIN d : d[i].name = k].sets

\* d.setdefault(k, []).append(v)
SetDefaultAppend(d, k, v) ==
    IF HasKey(d, k)
    THEN [i \in DOMAIN d |->
            IF d[i].name = k THEN [d[i] EXCEPT !.sets = Append(@, v)] ELSE d[i]]
    ELSE Append(d, [name |-> k, sets |-> <<v>>])

\* get_file_format(url) for the URL of each future
UrlFormat == [f \in Futures |-> get_file_format(rule_sets_config[f].url)]

\* the body of the as_completed loop of download_all_rules for one future
\* whose result is content
Collected(d, f, content) ==
    LET src == rule_sets_config[f]
        file_format == UrlFormat[f]
    IN  IF content # None /\ content # <<>> /\ file_format # "ValueError"
        THEN SetDefaultAppend(d, src.output_name,
                 [content |-> content, file_format |-> file_format,
                  comment |-> src.comment])
        ELSE d

\* all_processed_rules of the per-category loop of main
RECURSIVE AllProcessed(_)
AllProcessed(rule_sets) ==
    IF rule_sets = <<>> THEN <<>>
    ELSE ProcessAll(parse_rules(Head(rule_sets).content,
                                Head(rule_sets).file_format).payload)
            \o AllProcessed(Tail(rule_sets))

\* merged_rules of the per-category loop of main
CategoryMerge(output_name, all_processed_rules, custom_proxy, custom_direct) ==
    IF output_name = "Proxy"
    THEN merge_rules_with_priority(custom_proxy, all_processed_rules)
    ELSE IF output_name = "Direct"
    THEN merge_rules_with_priority(custom_direct, all_processed_rules)
    ELSE [payload |-> sort_rules(py_set(all_processed_rules)), custom_count |-> 0]

\* an exception that leaves a function
Raised == <<"raise">>

\* merged_rules of merge_proxy_and_ai_rules after the sources in rule_sets
\* are added to merged; Raised when rules['payload'] is None, which the
\* list comprehension cannot iterate (TypeError)
RECURSIVE ExtendMerged(_, _)
ExtendMerged(merged, rule_sets) ==
    IF merged = Raised \/ rule_sets = <<>> THEN merged
    ELSE LET content == Head(rule_sets).content
             rules   == parse_rules(content, get_file_format(content))
         IN  IF rules.payload = None THEN Raised
             ELSE ExtendMerged(merged \o ProcessAll(rules.payload), Tail(rule_sets))

\* the rules merge_proxy_and_ai_rules gathers from Proxy, then from Ai
ProxyAndAi(d) ==
    LET proxy == IF HasKey(d, "Proxy") THEN ExtendMerged(<<>>, Get(d, "Proxy"))
                 ELSE <<>>
    IN  IF HasKey(d, "Ai") THEN ExtendMerged(proxy, Get(d, "Ai")) ELSE proxy

\* sorted_merged of merge_proxy_and_ai_rules
merge_proxy_and_ai_rules(d) ==
    IF ProxyAndAi(d) = Raised THEN Raised
    ELSE sort_rules(py_set(ProxyAndAi(d)))

Init ==
    /\ \E p \in CustomFile(CUSTOM_PROXY), d \in CustomFile(CUSTOM_DIRECT) :
           custom_files = (CUSTOM_PROXY :> p) @@ (CUSTOM_DIRECT :> d)
    /\ \E r1 \in Responses(1), r2 \in Responses(2), r3 \in Responses(3),
          r4 \in Responses(4), r5 \in Responses(5) :
           responses = <<r1, r2, r3, r4, r5>>
    /\ pending = Futures
    /\ all_rules = <<>>
    /\ todo = <<>>
    /\ files = [n \in FileNames |-> None]
    /\ pc = "download"
    /\ RuleIdle
    /\ MergeIdle

\* download_all_rules: one more future completes and the loop collects it;
\* after the last one main starts its loop over all_downloaded_rules.items()
Complete(f) ==
    /\ pc = "download"
    /\ f \in pending
    /\ pending' = pending \ {f}
    /\ all_rules' = Collected(all_rules, f, responses[f])
    /\ IF pending' = {}
       THEN /\ todo' = Keys(all_rules')
            /\ pc' = IF todo' = <<>> THEN "unified" ELSE "process"
       ELSE UNCHANGED <<todo, pc>>
    /\ UNCHANGED <<custom_files, responses, files, ruleVars, mergeVars>>

\* main, per-category loop: no valid rule, the category is skipped
SkipCategory ==
    /\ pc = "process"
    /\ AllProcessed(Get(all_rules, Head(todo))) = <<>>
    /\ todo' = Tail(todo)
    /\ pc' = IF todo' = <<>> THEN "unified" ELSE "process"
    /\ UNCHANGED <<custom_files, responses, pending, all_rules, files, ruleVars,
                   mergeVars>>

\* main, per-category loop: the category is merged and its file written
\* (open() and write() are taken to succeed)
ProcessCategory ==
    /\ pc = "process"
    /\ LET output_name == Head(todo)
           all_processed_rules == AllProcessed(Get(all_rules, output_name))
           merged == CategoryMerge(output_name, all_processed_rules,
                                   custom_proxy_domains, custom_direct_domains)
       IN  /\ all_processed_rules # <<>>
           /\ files' = [files EXCEPT ![TxtFile(output_name)] =
                                        save_rules_txt(merged.payload)]
    /\ todo' = Tail(todo)
    /\ pc' = IF todo' = <<>> THEN "unified" ELSE "process"
    /\ UNCHANGED <<custom_files, responses, pending, all_rules, ruleVars,
                   mergeVars>>

\* main: merge_proxy_and_ai_rules writes merged_rules.conf
MergeProxyAndAi ==
    /\ pc = "unified"
    /\ merge_proxy_and_ai_rules(all_rules) # Raised
    /\ files' = [files EXCEPT ![MERGED_CONF] =
                                 WriteLines(merge_proxy_and_ai_rules(all_rules))]
    /\ pc' = "done"
    /\ UNCHANGED <<custom_files, responses, pending, all_rules, todo, ruleVars,
                   mergeVars>>

\* main: merge_proxy_and_ai_rules raises; it catches IOError alone, and the
\* run ends with the exception
MergeProxyAndAiRaises ==
    /\ pc = "unified"
    /\ merge_proxy_and_ai_rules(all_rules) = Raised
    /\ pc' = "crashed"
    /\ UNCHANGED <<custom_files, responses, pending, all_rules, todo, files,
                   ruleVars, mergeVars>>

Next ==
    \/ \E f \in Futures : Complete(f)
    \/ SkipCategory
    \/ ProcessCategory
    \/ MergeProxyAndAi
    \/ MergeProxyAndAiRaises

Spec == Init /\ [][Next]_vars

----------------------------------------------------------------------------
(* What the claims speak of.                                               *)

\* the matchType and the value of a rule 'matchType,value'
TypeOf(r) == SplitFirst(r, ",")
ValueOf(r) == From(r, Len(TypeOf(r)) + 2)

\* no entry of the list occurs twice
NoDuplicates(seq) == \A i, j \in DOMAIN seq : i # j => seq[i] # seq[j]

\* rule a may stand before rule b: by matchType, then by the whole rule
InOrder(a, b) ==
    \/ StrLess(TypeOf(a), TypeOf(b))
    \/ TypeOf(a) = TypeOf(b) /\ ~StrLess(b, a)

IsSorted(seq) == \A i, j \in DOMAIN seq : i < j => InOrder(seq[i], seq[j])

\* the texts downloaded for a category, in the order all_rules holds them
ContentsOf(d, output_name) ==
    [i \in DOMAIN Get(d, output_name) |-> Get(d, output_name)[i].content]

\* the run of main is over
Finished == pc \in {"done", "crashed"}

\* the merge has been called, and called again on its own payload
MergeDone == merged_rules # NotMerged
RemergeDone == remerged_rules # NotMerged

----------------------------------------------------------------------------
(* C1 - C4, C8: process_rule and merge_rules_with_priority                 *)

\* C1: the payload merge_rules_with_priority returns holds no rule twice,
\* also when a line occurs more than once in a list it is given.
C1_NoDuplicates == MergeDone => NoDuplicates(merged_rules.payload)

C3_Idempotent ==
    RemergeDone => Elems(remerged_rules.payload) = Elems(merged_rules.payload)

\* C4: a rule process_rule returns has a value that is not empty and holds
\* no quote, no '#', no '<' and no '>'; so a line of decoration characters
\* alone is rejected.
C4_CleanValue ==
    processed_rule \notin {Unset, None} =>
        /\ ValueOf(processed_rule) # <<>>
        /\ Elems(ValueOf(processed_rule)) \cap {"'", "#", "<", ">"} = {}

\* the values the Payload entries of C8 carry
PlainValues == {<<"a">>, <<"a", "a">>, <<"a", ".", "a">>} \cap Bodies

\* C8: the Payload entry 'v' is normalised to DOMAIN,v and the entry '+.v'
\* to DOMAIN-SUFFIX,v.
C8_PayloadEntry ==
    processed_rule # Unset =>
        \A v \in PlainValues :
            /\ rule = Quote(v) => processed_rule = PFX_DOMAIN \o v
            /\ rule = Quote(<<"+", ".">> \o v)
                 => processed_rule = PFX_DOMAIN_SUFFIX \o v

----------------------------------------------------------------------------
(* C5 - C7, C9, C10: main                                                  *)

\* all_rules, had the futures completed in the order of rule_sets_config
RECURSIVE CollectedUpTo(_)
CollectedUpTo(n) ==
    IF n = 0 THEN <<>> ELSE Collected(CollectedUpTo(n - 1), n, responses[n])

\* the merged rule set of a category, None when main skips the category
CategoryPayload(d, output_name) ==
    IF ~HasKey(d, output_name) \/ AllProcessed(Get(d, output_name)) = <<>>
    THEN None
    ELSE CategoryMerge(output_name, AllProcessed(Get(d, output_name)),
                       custom_proxy_domains, custom_direct_domains).payload

\* the files a finished run leaves for the dict d
FilesOf(d) ==
    [n \in FileNames |->
        IF n = MERGED_CONF
        THEN IF merge_proxy_and_ai_rules(d) = Raised THEN None
             ELSE WriteLines(merge_proxy_and_ai_rules(d))
        ELSE LET output_name == CHOOSE o \in OutputNames : TxtFile(o) = n
             IN  IF CategoryPayload(d, output_name) = None THEN None
                 ELSE save_rules_txt(CategoryPayload(d, output_name))]

\* C5: whatever the order in which the downloads complete, a finished run
\* has written what it writes when they complete in the order of
\* rule_sets_config.
C5_OrderIndependent == Finished => files = FilesOf(CollectedUpTo(Len(responses)))

\* C5, witness: a finished run in which the second source of Ai and the
\* second of Direct completed before the first, all four with rules, and
\* the three files of Ai, Direct and the unified output were written.
C5_Witness ==
    /\ pc = "done"
    /\ HasKey(all_rules, "Ai") /\ HasKey(all_rules, "Direct")
    /\ ContentsOf(all_rules, "Ai") = <<DOC_OPENAI, DOC_COPILOT>>
    /\ ContentsOf(all_rules, "Direct") = <<DOC_DOWNLOAD, DOC_DIRECT>>
    /\ Keys(all_rules)[1] = "Direct"
    /\ files[TxtFile("Ai")] # None
    /\ files[TxtFile("Direct")] # None
    /\ files[MERGED_CONF] # None

\* the rules the downloaded sources of Proxy and Ai hold
ProxyAiRules ==
    UNION {Elems(ProcessAll(parse_rules(responses[f],
                                        get_file_format(responses[f])).payload)) :
             f \in {g \in Futures :
                      /\ rule_sets_config[g].output_name \in {"Proxy", "Ai"}
                      /\ responses[g] # None
                      /\ parse_rules(responses[g],
                                     get_file_format(responses[g])).payload # None}}

\* C6: the unified output, when it is written, holds every rule of the
\* sources of Proxy and Ai exactly once; Proxy {DOMAIN,x.com} and Ai
\* {DOMAIN,x.com, DOMAIN,y.com} give DOMAIN,x.com and DOMAIN,y.com.
C6_UnifiedOnce ==
    files[MERGED_CONF] # None =>
        /\ NoDuplicates(SplitLines(files[MERGED_CONF]))
        /\ Elems(SplitLines(files[MERGED_CONF])) = ProxyAiRules
        /\ (responses[1] = DOC_PROXY_LIST /\ responses[2] = DOC_COPILOT
              /\ responses[3] = None)
             => files[MERGED_CONF] = Text(<<L_DOMAIN_X, L_DOMAIN_Y>>)

\* C6, witness: Proxy and Ai both brought DOMAIN,x.com and the unified
\* output holds it once.
C6_Witness ==
    /\ pc = "done"
    /\ responses[1] = DOC_PROXY_LIST
    /\ responses[2] = DOC_COPILOT
    /\ responses[3] = None
    /\ files[MERGED_CONF] = Text(<<L_DOMAIN_X, L_DOMAIN_Y>>)

\* C7: a source whose content parses to no payload list does not abort the
\* run: no exception leaves merge_proxy_and_ai_rules.
C7_NeverAborts == pc # "crashed"

\* the Payload dialect of a rule set: the header, then '  'v'' for DOMAIN,v
\* and '  '+.v'' for DOMAIN-SUFFIX,v, no line for any other matchType
RECURSIVE PayloadEntries(_)
PayloadEntries(rules) ==
    IF rules = <<>> THEN <<>>
    ELSE (IF StartsWith(Head(rules), PFX_DOMAIN)
          THEN <<" ", " ">> \o Quote(ValueOf(Head(rules))) \o NL
          ELSE IF StartsWith(Head(rules), PFX_DOMAIN_SUFFIX)
          THEN <<" ", " ">> \o Quote(<<"+", ".">> \o ValueOf(Head(rules))) \o NL
          ELSE <<>>)
            \o PayloadEntries(Tail(rules))

PayloadDialect(rules) == PAYLOAD_HEADER \o NL \o PayloadEntries(rules)

LinesOf(n) == IF files[n] = None THEN {} ELSE Elems(SplitLines(files[n]))

\* C10: when the run is over, every custom line of Proxy and of Direct that
\* process_rule accepts is in the file of its category, whatever became of
\* the category's downloads.
C10_CustomKept ==
    Finished =>
        /\ Elems(ProcessAll(custom_proxy_domains)) \subseteq LinesOf(TxtFile("Proxy"))
        /\ Elems(ProcessAll(custom_direct_domains)) \subseteq LinesOf(TxtFile("Direct"))

====
